---- MODULE Spec2Model ----
(***************************************************************************)
(* Model of grafkom/src/main.ts: the keyboard handler, the asynchronous    *)
(* font load, the projectile class and the per-frame animation loop.       *)
(*                                                                         *)
(* Numbers are fixed-point: one world unit is Scale (1000) model units, so *)
(* 0.1 is 100, 0.401 is 401, 0.8 is 800.  Products are truncated toward    *)
(* zero at that resolution.  IEEE-754 rounding is not represented.         *)
(***************************************************************************)
EXTENDS Integers, Sequences, FiniteSets

VARIABLES
    cubeMesh,          \* cubeMesh.position, cubeMesh.rotation
    camera,            \* camera.position
    projectiles,       \* let projectiles: Projectile[]
    letterN,           \* THREE.Mesh | undefined (its position when defined)
    number1,           \* THREE.Mesh | undefined (its position when defined)
    cubeLightMaterial, \* uniforms.time
    alphabetMaterial,  \* uniforms cubePos, viewPosition, ambientIntensity
    digitMaterial,     \* uniforms cubePos, viewPosition, ambientIntensity
    rafPending,        \* number of animate callbacks requestAnimationFrame holds
    keydowns           \* history: number of keydown events dispatched so far

vars == <<cubeMesh, camera, projectiles, letterN, number1, cubeLightMaterial,
          alphabetMaterial, digitMaterial, rafPending, keydowns>>

----------------------------------------------------------------------------
(* Bounds of the model *)

MaxFrames == 4      \* frames run by the animation loop after start-up
MaxKeys == 2        \* keydown events dispatched in one behaviour

(* Resolution of the fixed-point numbers: model units per world unit *)
Scale == 10 * 10 * 10

(* Program constants, in model units *)
PROJECTILE_SPEED == 100     \* 0.1
DETECTION_RADIUS == 2000    \* 2
CullRadius == 10000         \* 10, the literal in Projectile.update
KeyStep == 100              \* 0.1, the literal in every movement case
TimeStep == 50              \* 0.05
RotStep == 10               \* 0.01
Baseline == 401             \* 0.401
Elevated == 800             \* 0.8

\* the value of a mesh variable before the font has loaded
Undefined == [defined |-> FALSE]

\* new THREE.Mesh(...) followed by position.set(x, y, z)
Mesh(position) == [defined |-> TRUE, position |-> position]

----------------------------------------------------------------------------
(* THREE.Vector3 *)

Vec(x, y, z) == [x |-> x, y |-> y, z |-> z]

Zero == Vec(0, 0, 0)

Abs(n) == IF n < 0 THEN -n ELSE n

\* n / d rounded toward zero
TruncDiv(n, d) == IF n >= 0 THEN n \div d ELSE -((-n) \div d)

Add(a, b) == Vec(a.x + b.x, a.y + b.y, a.z + b.z)

\* Vector3.multiplyScalar with a fixed-point scalar s
MultiplyScalar(v, s) ==
    Vec(TruncDiv(v.x * s, Scale), TruncDiv(v.y * s, Scale), TruncDiv(v.z * s, Scale))

LengthSq(v) == v.x * v.x + v.y * v.y + v.z * v.z

DistanceToSq(a, b) == LengthSq(Vec(a.x - b.x, a.y - b.y, a.z - b.z))

\* floor of the square root
ISqrt(n) == CHOOSE r \in 0..Scale : r * r <= n /\ (r + 1) * (r + 1) > n

\* Vector3.normalize: divideScalar(length() || 1)
Normalize(v) ==
    LET len == ISqrt(LengthSq(v))
    IN  IF len = 0 THEN v
        ELSE Vec(TruncDiv(v.x * Scale, len), TruncDiv(v.y * Scale, len),
                 TruncDiv(v.z * Scale, len))

\* Vector3.length() > r
LongerThan(v, r) == LengthSq(v) > r * r

\* a.distanceTo(b) < r
CloserThan(a, b, r) == DistanceToSq(a, b) < r * r

----------------------------------------------------------------------------
(* Inputs *)

\* Values of (Math.random() - 0.5) on the three axes, each in [-0.5, 0.5)
RawDirections ==
    { Vec(400, 0, 0), Vec(-500, 0, 0), Vec(0, 300, 0), Vec(300, 400, 0), Zero }

\* event.key values: the seven handled keys and one that is not handled
Keys == {"w", "s", "a", "d", "q", "e", " ", "x"}

\* cubeMesh.position.y when the behaviour starts: 0 as constructed, or 10 after
\* one hundred 'w' key-downs, which the model does not replay one by one
CubeStartY == {0, 10000}

----------------------------------------------------------------------------
(* class Projectile *)

\* a constructor that does not copy the position argument into mesh.position
NewProjectile_AtOrigin(position, direction, id) ==
    [ position  |-> Zero,
      direction |-> Normalize(direction),
      alive     |-> TRUE,
      inScene   |-> TRUE,
      id        |-> id,
      spawnPos  |-> Zero,
      spawnDir  |-> Normalize(direction),
      updates   |-> 0 ]

\* constructor(position, direction); id, spawnPos, spawnDir and updates are
\* history fields: the construction order, the constructor's results and the
\* number of update() calls so far
NewProjectile(position, direction, id) ==
    [ position  |-> position,
      direction |-> Normalize(direction),
      alive     |-> TRUE,
      inScene   |-> TRUE,
      id        |-> id,
      spawnPos  |-> position,
      spawnDir  |-> Normalize(direction),
      updates   |-> 0 ]

\* destroy()
Destroy(p) == [p EXCEPT !.inScene = FALSE, !.alive = FALSE]

\* an update() that destroys at length() >= 10
ProjectileUpdate_CullsAtRadius(p) ==
    LET d == MultiplyScalar(p.direction, PROJECTILE_SPEED)
        moved == [p EXCEPT !.direction = d,
                           !.position = Add(p.position, d),
                           !.updates = p.updates + 1]
    IN  IF LengthSq(moved.position) >= CullRadius * CullRadius
        THEN Destroy(moved) ELSE moved

\* update(): direction.multiplyScalar mutates this.direction in place and
\* returns it; the scaled vector is what is added to the position
ProjectileUpdate(p) ==
    LET d == MultiplyScalar(p.direction, PROJECTILE_SPEED)
        moved == [p EXCEPT !.direction = d,
                           !.position = Add(p.position, d),
                           !.updates = p.updates + 1]
    IN  IF LongerThan(moved.position, CullRadius) THEN Destroy(moved) ELSE moved

----------------------------------------------------------------------------
(* updateProjectiles *)

\* an updateProjectiles without the filter
FilterAlive_KeepsDead(ps) == ps

\* projectiles.filter(p => p.alive)
FilterAlive(ps) == SelectSeq(ps, LAMBDA p : p.alive)

\* the body of the forEach callback for one projectile: the intensities after it
IntensityFor(position, mesh, old) ==
    IF letterN # Undefined /\ number1 # Undefined
    THEN IF CloserThan(position, mesh.position, DETECTION_RADIUS) THEN Elevated ELSE Baseline
    ELSE old

\* a forEach that elevates the intensity when any projectile is near
ForEachIntensity_AnyNear(ps, mesh, old) ==
    IF ps = <<>> \/ letterN = Undefined \/ number1 = Undefined THEN old
    ELSE IF \E i \in 1..Len(ps) :
               CloserThan(ps[i].position, mesh.position, DETECTION_RADIUS)
         THEN Elevated ELSE Baseline

\* forEach over the updated projectiles, left to right
RECURSIVE ForEachIntensity(_, _, _)
ForEachIntensity(ps, mesh, old) ==
    IF ps = <<>> THEN old
    ELSE ForEachIntensity(Tail(ps), mesh, IntensityFor(Head(ps).position, mesh, old))

UpdatedProjectiles(ps) ==
    LET live == FilterAlive(ps)
    IN  [i \in 1..Len(live) |-> ProjectileUpdate(live[i])]

----------------------------------------------------------------------------
(* State after the module has been evaluated, the first animate() call included *)

Init ==
    /\ \E y \in CubeStartY :
         cubeMesh = [position |-> Vec(0, y, 0), rotation |-> [x |-> RotStep, y |-> RotStep]]
    /\ camera = [position |-> Vec(0, 0, 5 * Scale)]
    /\ projectiles = <<>>
    /\ letterN = Undefined
    /\ number1 = Undefined
    /\ cubeLightMaterial = [time |-> TimeStep]
    /\ alphabetMaterial = [cubePos |-> Zero, viewPosition |-> Vec(0, 0, 5 * Scale),
                           ambientIntensity |-> Baseline]
    /\ digitMaterial = [cubePos |-> Zero, viewPosition |-> Vec(0, 0, 5 * Scale),
                        ambientIntensity |-> Baseline]
    /\ rafPending = 1
    /\ keydowns = 0

\* a load callback that creates only the letter
fontLoaded_LetterOnly ==
    /\ letterN = Undefined
    /\ letterN' = Mesh(Vec(-2 * Scale, 0, 0))
    /\ UNCHANGED <<number1, cubeMesh, camera, projectiles, cubeLightMaterial,
                   alphabetMaterial, digitMaterial, rafPending, keydowns>>

\* loader.load callback
fontLoaded ==
    /\ letterN = Undefined
    /\ letterN' = Mesh(Vec(-2 * Scale, 0, 0))
    /\ number1' = Mesh(Vec(2 * Scale, 0, 0))
    /\ UNCHANGED <<cubeMesh, camera, projectiles, cubeLightMaterial,
                   alphabetMaterial, digitMaterial, rafPending, keydowns>>

\* a frame that does not refresh cubePos
CopyUniforms_NoCubePos(material) ==
    [material EXCEPT !.viewPosition = camera.position]

\* uniforms.viewPosition.value.copy(camera.position) and
\* uniforms.cubePos.value.copy(cubeMesh.position) on one material
CopyUniforms(material) ==
    [material EXCEPT !.viewPosition = camera.position, !.cubePos = cubeMesh.position]

\* animate
animate ==
    /\ rafPending > 0
    /\ cubeLightMaterial.time < (MaxFrames + 1) * TimeStep
    /\ rafPending' = (rafPending - 1) + 1
    /\ cubeLightMaterial' = [cubeLightMaterial EXCEPT !.time = @ + TimeStep]
    /\ cubeMesh' = [cubeMesh EXCEPT !.rotation.x = @ + RotStep, !.rotation.y = @ + RotStep]
    /\ LET ps == UpdatedProjectiles(projectiles)
       IN  /\ projectiles' = ps
           /\ alphabetMaterial' =
                [CopyUniforms(alphabetMaterial) EXCEPT
                   !.ambientIntensity = ForEachIntensity(ps, letterN, @)]
           /\ digitMaterial' =
                [CopyUniforms(digitMaterial) EXCEPT
                   !.ambientIntensity = ForEachIntensity(ps, number1, @)]
    /\ UNCHANGED <<camera, letterN, number1, keydowns>>

\* case ' ' of the keydown handler
Spawn(raw) ==
    /\ UNCHANGED <<cubeMesh, camera>>
    /\ projectiles' =
         Append(projectiles, NewProjectile(cubeMesh.position, raw, keydowns + 1))

\* cubeMesh.position.y += dy
MoveCubeY(dy) ==
    /\ cubeMesh' = [cubeMesh EXCEPT !.position.y = @ + dy]
    /\ UNCHANGED <<camera, projectiles>>

\* q/e cases that write the y coordinate
MoveCubeZ_WritesY(dz) ==
    /\ cubeMesh' = [cubeMesh EXCEPT !.position.y = @ + dz]
    /\ UNCHANGED <<camera, projectiles>>

\* cubeMesh.position.z += dz
MoveCubeZ(dz) ==
    /\ cubeMesh' = [cubeMesh EXCEPT !.position.z = @ + dz]
    /\ UNCHANGED <<camera, projectiles>>

\* camera.position.x += dx
MoveCameraX(dx) ==
    /\ camera' = [camera EXCEPT !.position.x = @ + dx]
    /\ UNCHANGED <<cubeMesh, projectiles>>

\* window 'keydown' listener
keydown(key) ==
    /\ keydowns < MaxKeys
    /\ keydowns' = keydowns + 1
    /\ CASE key = "w" -> MoveCubeY(KeyStep)
         [] key = "s" -> MoveCubeY(-KeyStep)
         [] key = "a" -> MoveCameraX(-KeyStep)
         [] key = "d" -> MoveCameraX(KeyStep)
         [] key = "q" -> MoveCubeZ(-KeyStep)
         [] key = "e" -> MoveCubeZ(KeyStep)
         [] key = " " -> \E raw \in RawDirections : Spawn(raw)
         [] OTHER -> UNCHANGED <<cubeMesh, camera, projectiles>>
    /\ UNCHANGED <<letterN, number1, cubeLightMaterial, alphabetMaterial,
                   digitMaterial, rafPending>>

Next ==
    \/ animate
    \/ fontLoaded
    \/ \E key \in Keys : keydown(key)

Spec == Init /\ [][Next]_vars

----------------------------------------------------------------------------
(* Properties *)

Range(seq) == { seq[i] : i \in 1..Len(seq) }

MeshesExist == letterN # Undefined /\ number1 # Undefined

\* the value the forEach callback assigns for a projectile at this position
Lit(position, mesh) ==
    IF CloserThan(position, mesh.position, DETECTION_RADIUS) THEN Elevated ELSE Baseline

\* C1 (as claimed): after every completed updateProjectiles pass the
\* collection holds no entry whose alive flag is false.
C1_NoDeadAfterPass ==
    [][animate => \A i \in 1..Len(projectiles') : projectiles'[i].alive]_vars

\* C1 (amended): a pass drops every entry that was dead when it started, and
\* an entry that is dead when the pass ends was alive when it started and was
\* destroyed by this pass's update of it; so a dead entry stays in the
\* collection, flagged, from the end of the pass that destroyed it until the
\* filter of the next pass.
C1_DeadDroppedByNextPass ==
    [][animate =>
         /\ \A p \in Range(projectiles) :
              ~p.alive => \A q \in Range(projectiles') : q.id # p.id
         /\ \A q \in Range(projectiles') :
              ~q.alive => \E p \in Range(projectiles) :
                             /\ p.id = q.id
                             /\ p.alive
                             /\ q.updates = p.updates + 1]_vars

\* C1 witness: a pass has ended with a destroyed projectile still in the collection
C1_Witness ==
    \E p \in Range(projectiles) : ~p.alive /\ p.updates >= 1

\* C2 (as claimed): after a frame in which both meshes exist, each material's
\* ambientIntensity is 0.8 if some live projectile is closer than 2 to the
\* mesh and 0.401 otherwise, whatever the value was before the frame.
C2_AnyProjectileLights ==
    [][(animate /\ MeshesExist) =>
         /\ alphabetMaterial'.ambientIntensity =
              IF \E p \in Range(projectiles') :
                    p.alive /\ CloserThan(p.position, letterN.position, DETECTION_RADIUS)
              THEN Elevated ELSE Baseline
         /\ digitMaterial'.ambientIntensity =
              IF \E p \in Range(projectiles') :
                    p.alive /\ CloserThan(p.position, number1.position, DETECTION_RADIUS)
              THEN Elevated ELSE Baseline]_vars

\* C3 (as claimed): update leaves the direction fixed at spawn unchanged and
\* every update moves the projectile by that direction times 0.1, so after k
\* updates it is k * 0.1 along the spawn direction from its spawn point.
C3_ConstantStep ==
    \A p \in Range(projectiles) :
        LET step == MultiplyScalar(p.spawnDir, PROJECTILE_SPEED)
        IN  /\ p.direction = p.spawnDir
            /\ p.position = Vec(p.spawnPos.x + p.updates * step.x,
                                p.spawnPos.y + p.updates * step.y,
                                p.spawnPos.z + p.updates * step.z)

\* C4: a projectile is destroyed (alive cleared, mesh out of the scene) in
\* exactly the update that leaves it farther than 10 from the origin, exactly
\* 10 does not destroy it; a destroyed projectile is neither updated nor kept
\* by the next pass, and nothing touches it in between.
C4_CulledBeyondRadius ==
    /\ [](\A p \in Range(projectiles) :
            /\ p.alive = p.inScene
            /\ p.updates >= 1 => (p.alive <=> ~LongerThan(p.position, CullRadius))
            /\ p.updates = 0 => p.alive)
    /\ [][\A p \in Range(projectiles) :
            ~p.alive =>
               IF animate
               THEN \A q \in Range(projectiles') : q.id # p.id
               ELSE p \in Range(projectiles')]_vars

\* C4 witness: a projectile that survived an update at distance exactly 10 and
\* was destroyed by its next update
C4_Witness ==
    \E p \in Range(projectiles) :
        /\ ~p.alive /\ ~p.inScene
        /\ p.updates = 2
        /\ LengthSq(Add(p.spawnPos, MultiplyScalar(p.spawnDir, PROJECTILE_SPEED)))
             = CullRadius * CullRadius

\* the other case of C4: a projectile spawned farther than 10 from the origin
\* and destroyed by its first update
C4_SpawnedOutside ==
    \E p \in Range(projectiles) :
        ~p.alive /\ p.updates = 1 /\ LongerThan(p.spawnPos, CullRadius)

\* C5: a space key-down appends one projectile, alive, in the scene, not yet
\* updated, positioned at the cube's position of that moment, and leaves the
\* entries already in the collection as they were; no other key changes the
\* collection.
C5_SpawnAppendsOne ==
    [][\A key \in Keys :
         keydown(key) =>
            IF key = " "
            THEN /\ Len(projectiles') = Len(projectiles) + 1
                 /\ SubSeq(projectiles', 1, Len(projectiles)) = projectiles
                 /\ LET new == projectiles'[Len(projectiles')]
                    IN  /\ new.alive /\ new.inScene
                        /\ new.updates = 0
                        /\ new.position = cubeMesh.position
                        /\ \A p \in Range(projectiles) : p.id # new.id
                 /\ cubeMesh' = cubeMesh /\ camera' = camera
            ELSE projectiles' = projectiles]_vars

\* C5 witness: a projectile has been appended, at the cube's position, behind
\* one that had already been moved by a frame
C5_Witness ==
    /\ Len(projectiles) = 2
    /\ projectiles[1].updates >= 1
    /\ projectiles[1].position # projectiles[1].spawnPos
    /\ projectiles[2].updates = 0
    /\ projectiles[2].alive /\ projectiles[2].inScene
    /\ projectiles[2].position = cubeMesh.position

C7_NoMeshesNoHighlight ==
    /\ []((letterN = Undefined) <=> (number1 = Undefined))
    /\ [](letterN = Undefined =>
            /\ alphabetMaterial.ambientIntensity = Baseline
            /\ digitMaterial.ambientIntensity = Baseline)
    /\ [][(animate /\ letterN = Undefined) =>
            \A p \in Range(projectiles) :
               p.alive => \E q \in Range(projectiles') :
                             q.id = p.id /\ q.updates = p.updates + 1]_vars

\* C7 witness: the font has not loaded, at least two frames have run and a
\* projectile has been moved to within 2 of where the digit will be placed
C7_Witness ==
    /\ letterN = Undefined
    /\ \E p \in Range(projectiles) :
          p.updates >= 1 /\ CloserThan(p.position, Vec(2 * Scale, 0, 0), DETECTION_RADIUS)
    /\ cubeLightMaterial.time >= 3 * TimeStep

\* C8: after a frame in which both meshes exist and the filtered collection is
\* not empty, each ambientIntensity is decided by the last projectile of the
\* collection alone, at its position after this frame's update: 0.8 if it is
\* closer than 2 to the mesh, 0.401 otherwise.
C8_LastProjectileDecides ==
    [][(animate /\ MeshesExist /\ projectiles' # <<>>) =>
         LET last == projectiles'[Len(projectiles')]
         IN  /\ alphabetMaterial'.ambientIntensity = Lit(last.position, letterN)
             /\ digitMaterial'.ambientIntensity = Lit(last.position, number1)]_vars

\* C8 witness: after a frame the first projectile is within 2 of the digit,
\* the last one is not but is within 2 of the letter; the digit is at the
\* baseline and the letter is elevated
C8_Witness ==
    /\ MeshesExist
    /\ Len(projectiles) = 2
    /\ projectiles[1].updates >= 1 /\ projectiles[2].updates >= 1
    /\ CloserThan(projectiles[1].position, number1.position, DETECTION_RADIUS)
    /\ ~CloserThan(projectiles[2].position, number1.position, DETECTION_RADIUS)
    /\ digitMaterial.ambientIntensity = Baseline
    /\ alphabetMaterial.ambientIntensity = Elevated

\* C9: every frame adds 0.05 to the time uniform, leaves both materials'
\* viewPosition equal to the camera position and cubePos equal to the cube
\* position, adds 0.01 to both rotation angles, runs the projectile pass on the
\* filtered collection and leaves exactly one next frame scheduled.
C9_FrameSteps ==
    /\ [](rafPending = 1)
    /\ [][animate =>
            /\ cubeLightMaterial'.time = cubeLightMaterial.time + TimeStep
            /\ cubeLightMaterial'.time > cubeLightMaterial.time
            /\ alphabetMaterial'.viewPosition = camera'.position
            /\ digitMaterial'.viewPosition = camera'.position
            /\ alphabetMaterial'.cubePos = cubeMesh'.position
            /\ digitMaterial'.cubePos = cubeMesh'.position
            /\ cubeMesh'.position = cubeMesh.position
            /\ camera' = camera
            /\ cubeMesh'.rotation.x = cubeMesh.rotation.x + RotStep
            /\ cubeMesh'.rotation.y = cubeMesh.rotation.y + RotStep
            /\ Len(projectiles') = Len(FilterAlive(projectiles))]_vars

\* C9 witness: a frame has run after both the cube and the camera were moved
C9_Witness ==
    /\ alphabetMaterial.cubePos = cubeMesh.position
    /\ digitMaterial.viewPosition = camera.position
    /\ camera.position.x # 0
    /\ cubeMesh.position.z # 0
    /\ cubeLightMaterial.time > TimeStep

\* C10 (as claimed): every projectile spawned with a non-zero direction keeps
\* moving until it is destroyed.  Once the stored direction is the zero
\* vector, update adds nothing to the position ever again and a projectile
\* that is alive within the radius stays there in every later frame, so the
\* claim requires that no live projectile spawned with a non-zero direction
\* has a zero direction.
C10_KeepsMovingUntilDestroyed ==
    \A p \in Range(projectiles) :
        (p.alive /\ p.spawnDir # Zero) => p.direction # Zero

====
